---------------------------- MODULE Spec2Model ----------------------------
(***************************************************************************)
(* Activity registration API with e-mail notifications.                    *)
(*                                                                         *)
(* State machine of src/src/app.py (HTTP handlers, roster),                *)
(* src/src/email_preferences.py (preference store and evaluator),          *)
(* src/src/celery_tasks.py (background tasks) and                          *)
(* src/src/email_service.py (template rendering and mail transport).       *)
(***************************************************************************)
EXTENDS Integers, Sequences, FiniteSets, TLC

VARIABLES
    activities,        \* app.py: activities[name].participants, a list
    user_preferences,  \* email_preferences.py: the dict, in insertion order
    queue,             \* tasks accepted by the broker and not yet run
    mail_enabled,      \* email_service.enabled, fixed at construction
    lastOp,            \* the operation the last step ran, with its inputs
    response,          \* what that operation returned (or raised)
    calls,             \* EmailService.send_email invocations of the last task
    renders,           \* templates the last task asked jinja2 to render
    transport,         \* FastMail.send_message invocations of the last task
    reading,           \* a get_user_preferences call between two of its lines
    scanning           \* an iteration over user_preferences.items() under way

vars == <<activities, user_preferences, queue, mail_enabled,
          lastOp, response, calls, renders, transport, reading, scanning>>

\* what a task hands to the e-mail service, the renderer and the transport
effects == <<calls, renders, transport>>

(***************************************************************************)
(* Bounds of the model.                                                    *)
(***************************************************************************)
MaxQueue == 1
MaxRecipients == 2
MaxInterleaved == 2

(***************************************************************************)
(* Values.                                                                 *)
(***************************************************************************)
None == "None"

Identities == {"a@x.edu", "b@x.edu"}

ParentIdentities == {"p@x.edu"}

\* class EmailFrequency
EmailFrequency == {"immediate", "daily", "weekly", "disabled"}

\* class NotificationCategory
NotificationCategory ==
    {"signup_confirmation", "unregister_confirmation", "activity_changes",
     "reminders", "weekly_digest", "new_activities", "attendance"}

\* class EmailPreferences: every value the model accepts for one address
EmailPreferencesOf(email) ==
    [email : {email},
     enabled : BOOLEAN,
     frequency : EmailFrequency,
     signup_confirmation : BOOLEAN,
     unregister_confirmation : BOOLEAN,
     activity_changes : BOOLEAN,
     reminders : BOOLEAN,
     weekly_digest : BOOLEAN,
     new_activities : BOOLEAN,
     attendance : BOOLEAN,
     parent_email : ParentIdentities \cup {None},
     parent_cc_enabled : BOOLEAN,
     digest_only : BOOLEAN]

\* EmailPreferences(email=email): the field defaults of the class
EmailPreferences(email) ==
    [email |-> email,
     enabled |-> TRUE,
     frequency |-> "immediate",
     signup_confirmation |-> TRUE,
     unregister_confirmation |-> TRUE,
     activity_changes |-> TRUE,
     reminders |-> TRUE,
     weekly_digest |-> TRUE,
     new_activities |-> TRUE,
     attendance |-> TRUE,
     parent_email |-> None,
     parent_cc_enabled |-> FALSE,
     digest_only |-> FALSE]

(***************************************************************************)
(* A Python dict: a sequence of [key, value] entries in insertion order.   *)
(***************************************************************************)
DictHas(d, k) == \E i \in 1..Len(d) : d[i].key = k

DictGet(d, k) == d[CHOOSE i \in 1..Len(d) : d[i].key = k].value

\* d[k] = v: an existing key keeps its place, a new key goes last
DictSet(d, k, v) ==
    IF DictHas(d, k)
    THEN [i \in 1..Len(d) |->
            IF d[i].key = k THEN [key |-> k, value |-> v] ELSE d[i]]
    ELSE Append(d, [key |-> k, value |-> v])

\* del d[k]
DictDel(d, k) == SelectSeq(d, LAMBDA e : e.key # k)

DictKeys(d) == [i \in 1..Len(d) |-> d[i].key]

(***************************************************************************)
(* email_preferences.py.  An operation that may write the store returns    *)
(* [ret |-> its return value, prefs |-> the store afterwards].             *)
(***************************************************************************)
get_user_preferences_nostore(prefs, email) ==
    IF ~DictHas(prefs, email)
    THEN [ret |-> EmailPreferences(email), prefs |-> prefs]
    ELSE [ret |-> DictGet(prefs, email), prefs |-> prefs]

get_user_preferences(prefs, email) ==
    LET stored == IF ~DictHas(prefs, email)
                  THEN DictSet(prefs, email, EmailPreferences(email))
                  ELSE prefs
    IN  [ret |-> DictGet(stored, email), prefs |-> stored]

\* update_user_preferences keeping the opt-outs of the record it replaces
update_user_preferences_merging(prefs, email, preferences) ==
    LET merged ==
            IF DictHas(prefs, email)
            THEN [preferences EXCEPT
                    !.signup_confirmation =
                        preferences.signup_confirmation
                        /\ DictGet(prefs, email).signup_confirmation,
                    !.unregister_confirmation =
                        preferences.unregister_confirmation
                        /\ DictGet(prefs, email).unregister_confirmation]
            ELSE preferences
    IN  [ret |-> merged, prefs |-> DictSet(prefs, email, merged)]

update_user_preferences(prefs, email, preferences) ==
    [ret |-> preferences, prefs |-> DictSet(prefs, email, preferences)]

category_map_shifted(p, category) ==
    CASE category = "signup_confirmation" -> p.signup_confirmation
      [] category = "unregister_confirmation" -> p.unregister_confirmation
      [] category = "activity_changes" -> p.activity_changes
      [] category = "reminders" -> p.weekly_digest
      [] category = "weekly_digest" -> p.new_activities
      [] category = "new_activities" -> p.attendance
      [] category = "attendance" -> p.attendance
      [] OTHER -> TRUE

\* category_map.get(category, True)
category_map(p, category) ==
    CASE category = "signup_confirmation" -> p.signup_confirmation
      [] category = "unregister_confirmation" -> p.unregister_confirmation
      [] category = "activity_changes" -> p.activity_changes
      [] category = "reminders" -> p.reminders
      [] category = "weekly_digest" -> p.weekly_digest
      [] category = "new_activities" -> p.new_activities
      [] category = "attendance" -> p.attendance
      [] OTHER -> TRUE

should_send_email_no_kill_switch(prefs, email, category) ==
    LET got == get_user_preferences(prefs, email)
        p == got.ret
    IN  [ret |->
            IF p.digest_only /\ category # "weekly_digest" THEN FALSE
            ELSE category_map(p, category),
         prefs |-> got.prefs]

should_send_email_digest_first(prefs, email, category) ==
    LET got == get_user_preferences(prefs, email)
        p == got.ret
    IN  [ret |->
            IF p.digest_only
            THEN category = "weekly_digest" /\ p.weekly_digest
            ELSE IF ~p.enabled \/ p.frequency = "disabled" THEN FALSE
            ELSE category_map(p, category),
         prefs |-> got.prefs]

should_send_email(prefs, email, category) ==
    LET got == get_user_preferences(prefs, email)
        p == got.ret
    IN  [ret |->
            IF ~p.enabled \/ p.frequency = "disabled" THEN FALSE
            ELSE IF p.digest_only /\ category # "weekly_digest" THEN FALSE
            ELSE category_map(p, category),
         prefs |-> got.prefs]

\* Python truthiness of an Optional[EmailStr]
Truthy(x) == x # None /\ x # ""

get_parent_email_flag_ignored(prefs, email) ==
    LET got == get_user_preferences(prefs, email)
        p == got.ret
    IN  [ret |-> IF Truthy(p.parent_email) THEN p.parent_email ELSE None,
         prefs |-> got.prefs]

get_parent_email(prefs, email) ==
    LET got == get_user_preferences(prefs, email)
        p == got.ret
    IN  [ret |-> IF p.parent_cc_enabled /\ Truthy(p.parent_email)
                 THEN p.parent_email ELSE None,
         prefs |-> got.prefs]

get_all_preferences(prefs) == prefs

\* delete_user_preferences answering True whether or not the key is there
delete_user_preferences_always_true(prefs, email) ==
    [ret |-> TRUE, prefs |-> DictDel(prefs, email)]

delete_user_preferences(prefs, email) ==
    IF DictHas(prefs, email)
    THEN [ret |-> TRUE, prefs |-> DictDel(prefs, email)]
    ELSE [ret |-> FALSE, prefs |-> prefs]


(***************************************************************************)
(* email_service.py.  env is what the environment does to one send_email   *)
(* call: the template renders and the transport accepts ("ok"), rendering  *)
(* or message building raises ("render_error"), or the transport raises    *)
(* ("transport_error").  A call returns [ret, calls, renders, transport]:  *)
(* its result and what it handed to the service, renderer and transport.   *)
(***************************************************************************)
SendEmailOutcomes == {"ok", "render_error", "transport_error"}

\* cc=None; the code never builds an empty cc list
NoCc == <<>>

\* send_email reporting success whenever the message reached send_message
send_email_errors_unnoticed(enabled, recipients, subject, template_name, context, cc, env) ==
    LET call == [recipients |-> recipients, subject |-> subject,
                 template_name |-> template_name, context |-> context,
                 cc |-> cc]
        message == [subject |-> subject, recipients |-> recipients, cc |-> cc,
                    raised |-> (env # "ok")]
    IN  IF ~enabled
        THEN [ret |-> FALSE, calls |-> <<call>>,
              renders |-> <<>>, transport |-> <<>>]
        ELSE IF env = "render_error"
        THEN [ret |-> FALSE, calls |-> <<call>>,
              renders |-> <<template_name>>, transport |-> <<>>]
        ELSE [ret |-> TRUE, calls |-> <<call>>,
              renders |-> <<template_name>>, transport |-> <<message>>]

\* send_email without the test of self.enabled
send_email_unconditional(enabled, recipients, subject, template_name, context, cc, env) ==
    LET call == [recipients |-> recipients, subject |-> subject,
                 template_name |-> template_name, context |-> context,
                 cc |-> cc]
        message == [subject |-> subject, recipients |-> recipients, cc |-> cc,
                    raised |-> (env # "ok")]
    IN  IF env = "render_error"
        THEN [ret |-> FALSE, calls |-> <<call>>,
              renders |-> <<template_name>>, transport |-> <<>>]
        ELSE [ret |-> (env = "ok"), calls |-> <<call>>,
              renders |-> <<template_name>>, transport |-> <<message>>]

send_email(enabled, recipients, subject, template_name, context, cc, env) ==
    LET call == [recipients |-> recipients, subject |-> subject,
                 template_name |-> template_name, context |-> context,
                 cc |-> cc]
        \* the message given to send_message, and whether that call raised
        message == [subject |-> subject, recipients |-> recipients, cc |-> cc,
                    raised |-> (env # "ok")]
    IN  IF ~enabled
        THEN [ret |-> FALSE, calls |-> <<call>>,
              renders |-> <<>>, transport |-> <<>>]
        ELSE IF env = "render_error"
        THEN [ret |-> FALSE, calls |-> <<call>>,
              renders |-> <<template_name>>, transport |-> <<>>]
        ELSE [ret |-> (env = "ok"), calls |-> <<call>>,
              renders |-> <<template_name>>, transport |-> <<message>>]

send_signup_confirmation(enabled, student_email, activity_name, schedule, description, student_name, parent_email, env) ==
    send_email(enabled, <<student_email>>,
               <<"Confirmed: ", activity_name, " Registration">>,
               "signup_confirmation",
               [student_name |-> student_name, activity_name |-> activity_name,
                schedule |-> schedule, description |-> description],
               IF Truthy(parent_email) THEN <<parent_email>> ELSE NoCc,
               env)

send_unregister_confirmation(enabled, student_email, activity_name, schedule, student_name, parent_email, env) ==
    send_email(enabled, <<student_email>>,
               <<"Unregistration Confirmed: ", activity_name>>,
               "unregister_confirmation",
               [student_name |-> student_name, activity_name |-> activity_name,
                schedule |-> schedule],
               IF Truthy(parent_email) THEN <<parent_email>> ELSE NoCc,
               env)

send_activity_change_notification(enabled, recipients, activity_name, change_description, new_schedule, env) ==
    send_email(enabled, recipients,
               <<"Important Update: ", activity_name>>,
               "activity_change",
               [student_name |-> None, activity_name |-> activity_name,
                change_description |-> change_description,
                new_schedule |-> new_schedule],
               NoCc, env)

send_new_activity_announcement(enabled, recipients, activity_name, schedule, description, max_participants, env) ==
    send_email(enabled, recipients,
               <<"New Activity Available: ", activity_name>>,
               "new_activity",
               [student_name |-> None, activity_name |-> activity_name,
                schedule |-> schedule, description |-> description,
                max_participants |-> max_participants,
                portal_url |-> "http://localhost:8000"],
               NoCc, env)

(***************************************************************************)
(* celery_tasks.py.  A task returns [ret, prefs, calls, renders,           *)
(* transport]: its result, the preference store afterwards, and what it    *)
(* handed to the e-mail service, the renderer and the transport.           *)
(***************************************************************************)
Skipped(prefs, reason) ==
    [ret |-> [status |-> "skipped", reason |-> reason], prefs |-> prefs,
     calls |-> <<>>, renders |-> <<>>, transport |-> <<>>]

Delivered(prefs, sent) ==
    [ret |-> [status |-> IF sent.ret THEN "sent" ELSE "failed"],
     prefs |-> prefs, calls |-> sent.calls, renders |-> sent.renders,
     transport |-> sent.transport]

DeliveredCount(prefs, sent, n) ==
    [ret |-> [status |-> IF sent.ret THEN "sent" ELSE "failed",
              recipients |-> n],
     prefs |-> prefs, calls |-> sent.calls, renders |-> sent.renders,
     transport |-> sent.transport]

\* the task deciding as the record stood when nothing was stored yet
send_signup_confirmation_task_at_signup(prefs, enabled, t, env) ==
    LET chk == should_send_email(<<>>, t.student_email,
                                 "signup_confirmation")
        par == get_parent_email(<<>>, t.student_email)
        got == get_user_preferences(prefs, t.student_email)
    IN  IF ~chk.ret
        THEN Skipped(got.prefs, "user preferences")
        ELSE Delivered(got.prefs,
                send_signup_confirmation(enabled, t.student_email,
                    t.activity_name, t.schedule, t.description, None,
                    par.ret, env))

send_signup_confirmation_task_unchecked(prefs, enabled, t, env) ==
    LET par == get_parent_email(prefs, t.student_email)
    IN  Delivered(par.prefs,
            send_signup_confirmation(enabled, t.student_email,
                t.activity_name, t.schedule, t.description, None,
                par.ret, env))

send_signup_confirmation_task(prefs, enabled, t, env) ==
    LET chk == should_send_email(prefs, t.student_email,
                                 "signup_confirmation")
        par == get_parent_email(chk.prefs, t.student_email)
    IN  IF ~chk.ret
        THEN Skipped(chk.prefs, "user preferences")
        ELSE Delivered(par.prefs,
                send_signup_confirmation(enabled, t.student_email,
                    t.activity_name, t.schedule, t.description, None,
                    par.ret, env))

send_unregister_confirmation_task(prefs, enabled, t, env) ==
    LET chk == should_send_email(prefs, t.student_email,
                                 "unregister_confirmation")
        par == get_parent_email(chk.prefs, t.student_email)
    IN  IF ~chk.ret
        THEN Skipped(chk.prefs, "user preferences")
        ELSE Delivered(par.prefs,
                send_unregister_confirmation(enabled, t.student_email,
                    t.activity_name, t.schedule, None, par.ret, env))

\* [email for email in recipients if should_send_email(email, category)]
RECURSIVE filter_recipients_reversed(_, _, _)
filter_recipients_reversed(prefs, recipients, category) ==
    IF recipients = <<>>
    THEN [ret |-> <<>>, prefs |-> prefs]
    ELSE LET chk == should_send_email(prefs, Head(recipients), category)
             rest == filter_recipients_reversed(chk.prefs, Tail(recipients),
                                                category)
         IN  [ret |-> IF chk.ret THEN Append(rest.ret, Head(recipients))
                      ELSE rest.ret,
              prefs |-> rest.prefs]

RECURSIVE filter_recipients(_, _, _)
filter_recipients(prefs, recipients, category) ==
    IF recipients = <<>>
    THEN [ret |-> <<>>, prefs |-> prefs]
    ELSE LET chk == should_send_email(prefs, Head(recipients), category)
             rest == filter_recipients(chk.prefs, Tail(recipients), category)
         IN  [ret |-> IF chk.ret THEN <<Head(recipients)>> \o rest.ret
                      ELSE rest.ret,
              prefs |-> rest.prefs]

send_activity_change_task_unfiltered(prefs, enabled, t, env) ==
    LET f == filter_recipients(prefs, t.recipients, "activity_changes")
    IN  IF t.recipients = <<>>
        THEN Skipped(f.prefs, "no recipients with enabled preferences")
        ELSE DeliveredCount(f.prefs,
                send_activity_change_notification(enabled, t.recipients,
                    t.activity_name, t.change_description, t.new_schedule,
                    env),
                Len(t.recipients))

send_activity_change_task(prefs, enabled, t, env) ==
    LET f == filter_recipients(prefs, t.recipients, "activity_changes")
    IN  IF f.ret = <<>>
        THEN Skipped(f.prefs, "no recipients with enabled preferences")
        ELSE DeliveredCount(f.prefs,
                send_activity_change_notification(enabled, f.ret,
                    t.activity_name, t.change_description, t.new_schedule,
                    env),
                Len(f.ret))

\* send_new_activity_announcement_task trusting the list it is given
send_new_activity_announcement_task_unfiltered(prefs, enabled, t, env) ==
    IF t.recipients = <<>>
    THEN Skipped(prefs, "no recipients with enabled preferences")
    ELSE DeliveredCount(prefs,
            send_new_activity_announcement(enabled, t.recipients,
                t.activity_name, t.schedule, t.description,
                t.max_participants, env),
            Len(t.recipients))

send_new_activity_announcement_task(prefs, enabled, t, env) ==
    LET f == filter_recipients(prefs, t.recipients, "new_activities")
    IN  IF f.ret = <<>>
        THEN Skipped(f.prefs, "no recipients with enabled preferences")
        ELSE DeliveredCount(f.prefs,
                send_new_activity_announcement(enabled, f.ret,
                    t.activity_name, t.schedule, t.description,
                    t.max_participants, env),
                Len(f.ret))

\* the loop of send_batch_emails_task, leaving at the first failed send
RECURSIVE batch_loop_fail_fast(_, _, _, _)
batch_loop_fail_fast(enabled, t, envs, i) ==
    IF i > Len(t.recipients)
    THEN [results |-> <<>>, calls |-> <<>>, renders |-> <<>>,
          transport |-> <<>>]
    ELSE LET one == send_email(enabled, <<t.recipients[i]>>, t.subject,
                               t.template_name, t.context, NoCc, envs[i])
             rest == IF one.ret
                     THEN batch_loop_fail_fast(enabled, t, envs, i + 1)
                     ELSE [results |-> <<>>, calls |-> <<>>,
                           renders |-> <<>>, transport |-> <<>>]
         IN  [results |-> <<[email |-> t.recipients[i], sent |-> one.ret]>>
                          \o rest.results,
              calls |-> one.calls \o rest.calls,
              renders |-> one.renders \o rest.renders,
              transport |-> one.transport \o rest.transport]

\* the loop of send_batch_emails_task: one send_email per recipient, envs[i]
\* being what the environment does to the i-th call
RECURSIVE batch_loop(_, _, _, _)
batch_loop(enabled, t, envs, i) ==
    IF i > Len(t.recipients)
    THEN [results |-> <<>>, calls |-> <<>>, renders |-> <<>>,
          transport |-> <<>>]
    ELSE LET one == send_email(enabled, <<t.recipients[i]>>, t.subject,
                               t.template_name, t.context, NoCc, envs[i])
             rest == batch_loop(enabled, t, envs, i + 1)
         IN  [results |-> <<[email |-> t.recipients[i], sent |-> one.ret]>>
                          \o rest.results,
              calls |-> one.calls \o rest.calls,
              renders |-> one.renders \o rest.renders,
              transport |-> one.transport \o rest.transport]

\* send_batch_emails_task, sending only to the recipients that
\* should_send_email admits for new_activities
send_batch_emails_task_filtered(prefs, enabled, t, envs) ==
    LET f == filter_recipients(prefs, t.recipients, "new_activities")
        ft == [t EXCEPT !.recipients = f.ret]
        loop == batch_loop(enabled, ft, envs, 1)
        sent_count == Cardinality({i \in 1..Len(loop.results) :
                                      loop.results[i].sent})
    IN  [ret |-> [status |-> "completed",
                  total |-> Len(t.recipients),
                  sent |-> sent_count,
                  failed |-> Len(t.recipients) - sent_count],
         prefs |-> f.prefs, calls |-> loop.calls, renders |-> loop.renders,
         transport |-> loop.transport]

send_batch_emails_task(prefs, enabled, t, envs) ==
    LET loop == batch_loop(enabled, t, envs, 1)
        sent_count == Cardinality({i \in 1..Len(loop.results) :
                                      loop.results[i].sent})
    IN  [ret |-> [status |-> "completed",
                  total |-> Len(t.recipients),
                  sent |-> sent_count,
                  failed |-> Len(t.recipients) - sent_count],
         prefs |-> prefs, calls |-> loop.calls, renders |-> loop.renders,
         transport |-> loop.transport]

(***************************************************************************)
(* app.py: the in-memory activity database after construction.             *)
(***************************************************************************)
ActivityNames == {"Chess Club", "GitHub Skills"}

UnknownActivity == "Knitting"

InitialActivities ==
    [n \in ActivityNames |->
        IF n = "Chess Club"
        THEN [description |->
                  "Learn strategies and compete in chess tournaments",
              schedule |-> "Fridays, 3:30 PM - 5:00 PM",
              max_participants |-> 12,
              participants |-> <<"michael@mergington.edu",
                                 "daniel@mergington.edu">>]
        ELSE [description |->
                  "Learn practical coding and collaboration skills with GitHub - part of our GitHub Certifications program",
              schedule |-> "Wednesdays, 3:30 PM - 5:00 PM",
              max_participants |-> 25,
              participants |-> <<>>]]

NoOp == [op |-> "init"]

NoResponse == [kind |-> "none"]

\* a step that runs no task hands nothing to the e-mail service
NoEffects == calls' = <<>> /\ renders' = <<>> /\ transport' = <<>>

Range(seq) == {seq[i] : i \in 1..Len(seq)}

\* list.remove(x): the first occurrence goes
ListRemove(seq, x) ==
    LET i == CHOOSE j \in 1..Len(seq) :
                seq[j] = x /\ \A k \in 1..(j - 1) : seq[k] # x
    IN  [j \in 1..(Len(seq) - 1) |-> IF j < i THEN seq[j] ELSE seq[j + 1]]

\* the queue without its i-th task
Dequeue(q, i) ==
    [j \in 1..(Len(q) - 1) |-> IF j < i THEN q[j] ELSE q[j + 1]]

\* task.delay(...) with a broker that accepts the task and loses it
delay_dropping(q, task, broker_up) ==
    [raised |-> ~broker_up, queue |-> q]

\* task.delay(...): the broker accepts the task, or the call raises
delay(q, task, broker_up) ==
    IF broker_up
    THEN [raised |-> FALSE, queue |-> Append(q, task)]
    ELSE [raised |-> TRUE, queue |-> q]

(***************************************************************************)
(* Requests in flight.  The handlers declared with def run in threads of   *)
(* the server's pool, those declared with async def on the event loop, so  *)
(* a handler can take a step between two lines of get_user_preferences or  *)
(* between two items of an iteration over the dict.  An iteration keeps    *)
(* the dict's size at its start, the number of items it still expects and  *)
(* its place in the dict's entries, where a deleted key leaves a hole and  *)
(* a new key goes last.                                                    *)
(***************************************************************************)
NoThread == [pc |-> "idle"]

Hole == "<deleted>"

\* the entries of the dict under iteration once the store has become store
SlotsAfter(slots, store) ==
    LET kept == [i \in 1..Len(slots) |->
                    IF slots[i] # Hole /\ DictHas(store, slots[i])
                    THEN slots[i] ELSE Hole]
    IN  kept \o SelectSeq(DictKeys(store), LAMBDA k : k \notin Range(kept))

\* an iteration under way after a step that took the store from before to
\* store; history collects every content the store had while the iteration
\* ran, changes counts the steps that changed it
Disturbed(scan, before, store) ==
    IF scan.pc = "iterating" /\ store # before
    THEN [scan EXCEPT !.slots = SlotsAfter(@, store),
                      !.history = @ \cup {store},
                      !.changes = @ + 1]
    ELSE scan

\* a step of one handler, taken in one piece while other requests are in
\* flight
Interleaved ==
    /\ reading' = reading
    /\ scanning' = Disturbed(scanning, user_preferences, user_preferences')

(***************************************************************************)
(* The preference functions applied to one stored record: the store holds  *)
(* nothing, or one record of any shape.                                    *)
(***************************************************************************)
InitEval ==
    /\ activities = InitialActivities
    /\ user_preferences \in
          {<<>>} \cup
          {<<[key |-> e, value |-> r]>> :
              e \in {"a@x.edu"}, r \in EmailPreferencesOf("a@x.edu")}
    /\ queue = <<>>
    /\ mail_enabled = FALSE
    /\ lastOp = NoOp
    /\ response = NoResponse
    /\ calls = <<>>
    /\ renders = <<>>
    /\ transport = <<>>
    /\ reading = NoThread
    /\ scanning = NoThread

\* GET /email-preferences/{email}
get_email_preferences(email) ==
    LET got == get_user_preferences(user_preferences, email)
    IN  /\ user_preferences' = got.prefs
        /\ response' = [ret |-> got.ret]
        /\ lastOp' = [op |-> "get_email_preferences", email |-> email,
                      before |-> user_preferences]
        /\ UNCHANGED <<activities, queue, mail_enabled>>
        /\ NoEffects
        /\ Interleaved

CallShouldSendEmail(email, category) ==
    LET got == should_send_email(user_preferences, email, category)
    IN  /\ user_preferences' = got.prefs
        /\ response' = [ret |-> got.ret]
        /\ lastOp' = [op |-> "should_send_email", email |-> email,
                      category |-> category, before |-> user_preferences]
        /\ UNCHANGED <<activities, queue, mail_enabled>>
        /\ NoEffects
        /\ Interleaved

CallGetParentEmail(email) ==
    LET got == get_parent_email(user_preferences, email)
    IN  /\ user_preferences' = got.prefs
        /\ response' = [ret |-> got.ret]
        /\ lastOp' = [op |-> "get_parent_email", email |-> email,
                      before |-> user_preferences]
        /\ UNCHANGED <<activities, queue, mail_enabled>>
        /\ NoEffects
        /\ Interleaved

NextEval ==
    \/ \E email \in Identities : get_email_preferences(email)
    \/ \E email \in Identities, category \in NotificationCategory :
          CallShouldSendEmail(email, category)
    \/ \E email \in Identities : CallGetParentEmail(email)

SpecEval == InitEval /\ [][NextEval]_vars


(***************************************************************************)
(* app.py: the roster handlers.  broker_up says whether the broker accepts *)
(* the task the handler submits; a request rejected before it submits      *)
(* anything does not consult the broker, and is taken with broker_up true. *)
(***************************************************************************)
SignupTask(activity_name, email) ==
    [task |-> "send_signup_confirmation_task",
     student_email |-> email,
     activity_name |-> activity_name,
     schedule |-> activities[activity_name].schedule,
     description |-> activities[activity_name].description]

UnregisterTask(activity_name, email) ==
    [task |-> "send_unregister_confirmation_task",
     student_email |-> email,
     activity_name |-> activity_name,
     schedule |-> activities[activity_name].schedule]

\* a rejected roster request: the HTTPException is the response
Rejected(op, activity_name, email, code, detail) ==
    /\ response' = [code |-> code, detail |-> detail]
    /\ lastOp' = [op |-> op, activity_name |-> activity_name,
                  email |-> email, delay |-> "none"]
    /\ UNCHANGED <<activities, user_preferences, queue, mail_enabled>>
    /\ NoEffects
    /\ Interleaved

\* POST /activities/{activity_name}/signup, without the check that the
\* student is not yet in the list
signup_for_activity_unvalidated(activity_name, email, broker_up) ==
    IF activity_name \notin DOMAIN activities
    THEN broker_up /\ Rejected("signup_for_activity", activity_name, email,
                  404, "Activity not found")
    ELSE LET d == delay(queue, SignupTask(activity_name, email), broker_up)
         IN  /\ broker_up => Len(queue) < MaxQueue
             /\ activities' = [activities EXCEPT
                   ![activity_name].participants = Append(@, email)]
             /\ queue' = d.queue
             /\ response' = [code |-> 200,
                             message |-> <<"Signed up ", email, " for ",
                                           activity_name>>]
             /\ lastOp' = [op |-> "signup_for_activity",
                           activity_name |-> activity_name, email |-> email,
                           delay |-> IF d.raised THEN "raised" ELSE "accepted"]
             /\ UNCHANGED <<user_preferences, mail_enabled>>
             /\ NoEffects
             /\ Interleaved

\* POST /activities/{activity_name}/signup, appending before it validates
signup_for_activity_append_first(activity_name, email, broker_up) ==
    IF activity_name \notin DOMAIN activities
    THEN broker_up /\ Rejected("signup_for_activity", activity_name, email,
                  404, "Activity not found")
    ELSE IF email \in Range(activities[activity_name].participants)
    THEN /\ broker_up
         /\ activities' = [activities EXCEPT
               ![activity_name].participants = Append(@, email)]
         /\ response' = [code |-> 400,
                         detail |-> "Student is already signed up"]
         /\ lastOp' = [op |-> "signup_for_activity",
                       activity_name |-> activity_name, email |-> email,
                       delay |-> "none"]
         /\ UNCHANGED <<user_preferences, queue, mail_enabled>>
         /\ NoEffects
         /\ Interleaved
    ELSE LET d == delay(queue, SignupTask(activity_name, email), broker_up)
         IN  /\ broker_up => Len(queue) < MaxQueue
             /\ activities' = [activities EXCEPT
                   ![activity_name].participants = Append(@, email)]
             /\ queue' = d.queue
             /\ response' = [code |-> 200,
                             message |-> <<"Signed up ", email, " for ",
                                           activity_name>>]
             /\ lastOp' = [op |-> "signup_for_activity",
                           activity_name |-> activity_name, email |-> email,
                           delay |-> IF d.raised THEN "raised" ELSE "accepted"]
             /\ UNCHANGED <<user_preferences, mail_enabled>>
             /\ NoEffects
             /\ Interleaved

\* POST /activities/{activity_name}/signup, refusing a full activity
signup_for_activity_capped(activity_name, email, broker_up) ==
    IF activity_name \notin DOMAIN activities
    THEN broker_up /\ Rejected("signup_for_activity", activity_name, email,
                  404, "Activity not found")
    ELSE IF email \in Range(activities[activity_name].participants)
    THEN broker_up /\ Rejected("signup_for_activity", activity_name, email,
                  400, "Student is already signed up")
    ELSE IF Len(activities[activity_name].participants)
               >= activities[activity_name].max_participants
    THEN broker_up /\ Rejected("signup_for_activity", activity_name, email,
                  400, "Activity is full")
    ELSE LET d == delay(queue, SignupTask(activity_name, email), broker_up)
         IN  /\ broker_up => Len(queue) < MaxQueue
             /\ activities' = [activities EXCEPT
                   ![activity_name].participants = Append(@, email)]
             /\ queue' = d.queue
             /\ response' = [code |-> 200,
                             message |-> <<"Signed up ", email, " for ",
                                           activity_name>>]
             /\ lastOp' = [op |-> "signup_for_activity",
                           activity_name |-> activity_name, email |-> email,
                           delay |-> IF d.raised THEN "raised" ELSE "accepted"]
             /\ UNCHANGED <<user_preferences, mail_enabled>>
             /\ NoEffects
             /\ Interleaved

\* POST /activities/{activity_name}/signup, without the try/except
signup_for_activity_propagating(activity_name, email, broker_up) ==
    IF activity_name \notin DOMAIN activities
    THEN broker_up /\ Rejected("signup_for_activity", activity_name, email,
                  404, "Activity not found")
    ELSE IF email \in Range(activities[activity_name].participants)
    THEN broker_up /\ Rejected("signup_for_activity", activity_name, email,
                  400, "Student is already signed up")
    ELSE LET d == delay(queue, SignupTask(activity_name, email), broker_up)
         IN  /\ broker_up => Len(queue) < MaxQueue
             /\ activities' = [activities EXCEPT
                   ![activity_name].participants = Append(@, email)]
             /\ queue' = d.queue
             /\ response' =
                   IF d.raised
                   THEN [code |-> 500, detail |-> "Internal Server Error"]
                   ELSE [code |-> 200,
                         message |-> <<"Signed up ", email, " for ",
                                       activity_name>>]
             /\ lastOp' = [op |-> "signup_for_activity",
                           activity_name |-> activity_name, email |-> email,
                           delay |-> IF d.raised THEN "raised" ELSE "accepted"]
             /\ UNCHANGED <<user_preferences, mail_enabled>>
             /\ NoEffects
             /\ Interleaved

\* POST /activities/{activity_name}/signup
signup_for_activity(activity_name, email, broker_up) ==
    IF activity_name \notin DOMAIN activities
    THEN broker_up /\ Rejected("signup_for_activity", activity_name, email,
                  404, "Activity not found")
    ELSE IF email \in Range(activities[activity_name].participants)
    THEN broker_up /\ Rejected("signup_for_activity", activity_name, email,
                  400, "Student is already signed up")
    ELSE LET d == delay(queue, SignupTask(activity_name, email), broker_up)
         IN  /\ broker_up => Len(queue) < MaxQueue
             /\ activities' = [activities EXCEPT
                   ![activity_name].participants = Append(@, email)]
             /\ queue' = d.queue
             /\ response' = [code |-> 200,
                             message |-> <<"Signed up ", email, " for ",
                                           activity_name>>]
             /\ lastOp' = [op |-> "signup_for_activity",
                           activity_name |-> activity_name, email |-> email,
                           delay |-> IF d.raised THEN "raised" ELSE "accepted"]
             /\ UNCHANGED <<user_preferences, mail_enabled>>
             /\ NoEffects
             /\ Interleaved

\* DELETE /activities/{activity_name}/unregister
unregister_from_activity(activity_name, email, broker_up) ==
    IF activity_name \notin DOMAIN activities
    THEN broker_up /\ Rejected("unregister_from_activity", activity_name, email,
                  404, "Activity not found")
    ELSE IF email \notin Range(activities[activity_name].participants)
    THEN broker_up /\ Rejected("unregister_from_activity", activity_name, email,
                  400, "Student is not signed up for this activity")
    ELSE LET d == delay(queue, UnregisterTask(activity_name, email), broker_up)
         IN  /\ broker_up => Len(queue) < MaxQueue
             /\ activities' = [activities EXCEPT
                   ![activity_name].participants = ListRemove(@, email)]
             /\ queue' = d.queue
             /\ response' = [code |-> 200,
                             message |-> <<"Unregistered ", email, " from ",
                                           activity_name>>]
             /\ lastOp' = [op |-> "unregister_from_activity",
                           activity_name |-> activity_name, email |-> email,
                           delay |-> IF d.raised THEN "raised" ELSE "accepted"]
             /\ UNCHANGED <<user_preferences, mail_enabled>>
             /\ NoEffects
             /\ Interleaved

(***************************************************************************)
(* app.py: the preference handlers.                                        *)
(***************************************************************************)
\* PUT /email-preferences/{email}
set_email_preferences(email, preferences) ==
    IF email # preferences.email
    THEN /\ response' = [code |-> 400,
                         detail |->
                           "Email in path must match email in preferences"]
         /\ lastOp' = [op |-> "set_email_preferences", email |-> email,
                       preferences |-> preferences,
                       before |-> user_preferences]
         /\ UNCHANGED <<activities, user_preferences, queue, mail_enabled>>
         /\ NoEffects
         /\ Interleaved
    ELSE LET upd == update_user_preferences(user_preferences, email,
                                            preferences)
         IN  /\ user_preferences' = upd.prefs
             /\ response' = [code |-> 200,
                             message |-> "Preferences updated successfully",
                             preferences |-> upd.ret]
             /\ lastOp' = [op |-> "set_email_preferences", email |-> email,
                           preferences |-> preferences,
                           before |-> user_preferences]
             /\ UNCHANGED <<activities, queue, mail_enabled>>
             /\ NoEffects
             /\ Interleaved

\* DELETE /email-preferences/{email}
remove_email_preferences(email) ==
    LET del == delete_user_preferences(user_preferences, email)
    IN  /\ user_preferences' = del.prefs
        /\ response' = IF del.ret
                       THEN [code |-> 200,
                             message |-> "Preferences deleted successfully"]
                       ELSE [code |-> 404, detail |-> "Preferences not found"]
        /\ lastOp' = [op |-> "remove_email_preferences", email |-> email,
                      before |-> user_preferences]
        /\ UNCHANGED <<activities, queue, mail_enabled>>
        /\ NoEffects
        /\ Interleaved

(***************************************************************************)
(* The worker: it takes any queued task and runs it to its result.  With   *)
(* the e-mail service disabled nothing reaches the environment, and the    *)
(* task is taken with env "ok".                                            *)
(***************************************************************************)
Ran(t, r) ==
    /\ user_preferences' = r.prefs
    /\ response' = [ret |-> r.ret]
    /\ lastOp' = [op |-> t.task, task |-> t, before |-> user_preferences]
    /\ calls' = r.calls
    /\ renders' = r.renders
    /\ transport' = r.transport
    /\ UNCHANGED <<activities, mail_enabled>>
    /\ Interleaved

RunSignupConfirmation(i, env) ==
    /\ i \in 1..Len(queue)
    /\ queue[i].task = "send_signup_confirmation_task"
    /\ mail_enabled \/ env = "ok"
    /\ queue' = Dequeue(queue, i)
    /\ Ran(queue[i], send_signup_confirmation_task(user_preferences,
                        mail_enabled, queue[i], env))

RunUnregisterConfirmation(i, env) ==
    /\ i \in 1..Len(queue)
    /\ queue[i].task = "send_unregister_confirmation_task"
    /\ mail_enabled \/ env = "ok"
    /\ queue' = Dequeue(queue, i)
    /\ Ran(queue[i], send_unregister_confirmation_task(user_preferences,
                        mail_enabled, queue[i], env))

(***************************************************************************)
(* The roster and its confirmations: signup, unregister, the preference    *)
(* handlers and the worker running the confirmation tasks.                 *)
(***************************************************************************)
\* a record that opts out of both confirmations
OptedOut(email) ==
    [EmailPreferences(email) EXCEPT !.signup_confirmation = FALSE,
                                    !.unregister_confirmation = FALSE]

\* a record that copies the parent
ParentCc(email) ==
    [EmailPreferences(email) EXCEPT !.parent_email = "p@x.edu",
                                    !.parent_cc_enabled = TRUE]

\* request bodies of PUT /email-preferences
RosterBodies ==
    {OptedOut(e) : e \in Identities} \cup {ParentCc(e) : e \in Identities}

\* activity names of the roster requests: one in the database, one not
RequestActivities == {"Chess Club", UnknownActivity}

Init ==
    /\ activities = InitialActivities
    /\ user_preferences = <<>>
    /\ queue = <<>>
    /\ mail_enabled \in BOOLEAN
    /\ lastOp = NoOp
    /\ response = NoResponse
    /\ calls = <<>>
    /\ renders = <<>>
    /\ transport = <<>>
    /\ reading = NoThread
    /\ scanning = NoThread

Next ==
    \/ \E a \in RequestActivities, e \in Identities, up \in BOOLEAN :
          signup_for_activity(a, e, up)
    \/ \E a \in RequestActivities, e \in Identities, up \in BOOLEAN :
          unregister_from_activity(a, e, up)
    \/ \E e \in Identities : get_email_preferences(e)
    \/ \E e \in Identities, body \in RosterBodies :
          set_email_preferences(e, body)
    \/ \E e \in Identities : remove_email_preferences(e)
    \/ \E i \in 1..MaxQueue, env \in SendEmailOutcomes :
          RunSignupConfirmation(i, env)
    \/ \E i \in 1..MaxQueue, env \in SendEmailOutcomes :
          RunUnregisterConfirmation(i, env)

Spec == Init /\ [][Next]_vars

ConfirmationTasks ==
    {"send_signup_confirmation_task", "send_unregister_confirmation_task"}

\* the step that takes a waiting task of this name and address off the
\* queue: in every specification here only the worker running the task
\* takes such a step
Dequeued(task, email) ==
    \E i \in 1..Len(queue) :
        /\ queue[i].task = task
        /\ queue[i].student_email = email
        /\ queue' = Dequeue(queue, i)

\* the worker process consumes the queue: no task waits forever
WorkerFairness ==
    \A task \in ConfirmationTasks, email \in Identities :
        WF_queue(Dequeued(task, email))

\* the roster requests and the worker, the preference handlers left out
NextLive ==
    \/ \E a \in RequestActivities, e \in Identities, up \in BOOLEAN :
          signup_for_activity(a, e, up)
    \/ \E a \in RequestActivities, e \in Identities, up \in BOOLEAN :
          unregister_from_activity(a, e, up)
    \/ \E i \in 1..MaxQueue, env \in SendEmailOutcomes :
          RunSignupConfirmation(i, env)
    \/ \E i \in 1..MaxQueue, env \in SendEmailOutcomes :
          RunUnregisterConfirmation(i, env)

SpecLive == Init /\ [][NextLive]_vars /\ WorkerFairness

(***************************************************************************)
(* The broadcast tasks applied to a stored set of preferences: no handler  *)
(* of app.py submits send_activity_change_task, so the task message comes  *)
(* from outside with any recipient list.                                   *)
(***************************************************************************)
\* lists of at most MaxRecipients addresses, repetitions included
RecipientLists == UNION {[1..n -> Identities] : n \in 0..MaxRecipients}

\* a record that opts out of both broadcast categories
BroadcastOff(email) ==
    [EmailPreferences(email) EXCEPT !.activity_changes = FALSE,
                                    !.new_activities = FALSE]

\* a record with the global switch off
Disabled(email) == [EmailPreferences(email) EXCEPT !.enabled = FALSE]

\* a record in digest-only mode
DigestOnly(email) == [EmailPreferences(email) EXCEPT !.digest_only = TRUE]

BroadcastRecords(email) ==
    {EmailPreferences(email), BroadcastOff(email), Disabled(email),
     DigestOnly(email)}

\* the stores PUT /email-preferences can build from these records
BroadcastStores ==
    {<<>>}
    \cup {<<[key |-> e, value |-> r]>> :
             e \in Identities, r \in UNION {BroadcastRecords(x) : x \in Identities}}
    \cup {<<[key |-> e1, value |-> r1], [key |-> e2, value |-> r2]>> :
             e1 \in Identities, e2 \in Identities,
             r1 \in UNION {BroadcastRecords(x) : x \in Identities},
             r2 \in UNION {BroadcastRecords(x) : x \in Identities}}

WellKeyed(store) ==
    /\ \A i \in 1..Len(store) : store[i].value.email = store[i].key
    /\ \A i, j \in 1..Len(store) : store[i].key = store[j].key => i = j

ActivityChangeTask(recipients) ==
    [task |-> "send_activity_change_task",
     recipients |-> recipients,
     activity_name |-> "Chess Club",
     change_description |-> "Room changed",
     new_schedule |-> None]

AnnouncementTask(activity_name, recipients) ==
    [task |-> "send_new_activity_announcement_task",
     recipients |-> recipients,
     activity_name |-> activity_name,
     schedule |-> activities[activity_name].schedule,
     description |-> activities[activity_name].description,
     max_participants |-> activities[activity_name].max_participants]

InitFilter ==
    /\ activities = InitialActivities
    /\ user_preferences \in {st \in BroadcastStores : WellKeyed(st)}
    /\ queue = <<>>
    /\ mail_enabled \in BOOLEAN
    /\ lastOp = NoOp
    /\ response = NoResponse
    /\ calls = <<>>
    /\ renders = <<>>
    /\ transport = <<>>
    /\ reading = NoThread
    /\ scanning = NoThread

RunActivityChange(recipients, env) ==
    /\ mail_enabled \/ env = "ok"
    /\ UNCHANGED queue
    /\ Ran(ActivityChangeTask(recipients),
           send_activity_change_task(user_preferences, mail_enabled,
               ActivityChangeTask(recipients), env))

ReceiveNewActivityAnnouncement(recipients, env) ==
    /\ mail_enabled \/ env = "ok"
    /\ UNCHANGED queue
    /\ Ran(AnnouncementTask("GitHub Skills", recipients),
           send_new_activity_announcement_task(user_preferences, mail_enabled,
               AnnouncementTask("GitHub Skills", recipients), env))

NextFilter ==
    \/ \E recipients \in RecipientLists, env \in SendEmailOutcomes :
          RunActivityChange(recipients, env)
    \/ \E recipients \in RecipientLists, env \in SendEmailOutcomes :
          ReceiveNewActivityAnnouncement(recipients, env)

SpecFilter == InitFilter /\ [][NextFilter]_vars

(***************************************************************************)
(* Batch announcements: the handler and the worker running its task.       *)
(***************************************************************************)
BatchTask(recipients) ==
    [task |-> "send_batch_emails_task",
     recipients |-> recipients,
     subject |-> "School notice",
     template_name |-> "notice",
     context |-> [body |-> "The school is closed on Monday"]]

\* POST /announcements/batch-email, without the check of the recipients
send_batch_announcement_unvalidated(recipients, broker_up) ==
    LET d == delay(queue, BatchTask(recipients), broker_up)
    IN  /\ broker_up => Len(queue) < MaxQueue
        /\ queue' = d.queue
        /\ response' =
              IF d.raised
              THEN [code |-> 200,
                    message |-> "Could not queue batch emails (task queue unavailable)",
                    recipients_count |-> Len(recipients),
                    warning |-> "Email service may not be available"]
              ELSE [code |-> 200,
                    message |-> <<"Batch emails queued for ",
                                  Len(recipients), " recipients">>,
                    recipients_count |-> Len(recipients)]
        /\ lastOp' = [op |-> "send_batch_announcement",
                      recipients |-> recipients,
                      delay |-> IF d.raised THEN "raised" ELSE "accepted"]
        /\ UNCHANGED <<activities, user_preferences, mail_enabled>>
        /\ NoEffects
        /\ Interleaved

\* POST /announcements/batch-email
send_batch_announcement(recipients, broker_up) ==
    IF recipients = <<>>
    THEN /\ broker_up
         /\ response' = [code |-> 400, detail |-> "No recipients specified"]
         /\ lastOp' = [op |-> "send_batch_announcement",
                       recipients |-> recipients, delay |-> "none"]
         /\ UNCHANGED <<activities, user_preferences, queue, mail_enabled>>
         /\ NoEffects
         /\ Interleaved
    ELSE LET d == delay(queue, BatchTask(recipients), broker_up)
         IN  /\ broker_up => Len(queue) < MaxQueue
             /\ queue' = d.queue
             /\ response' =
                   IF d.raised
                   THEN [code |-> 200,
                         message |-> "Could not queue batch emails (task queue unavailable)",
                         recipients_count |-> Len(recipients),
                         warning |-> "Email service may not be available"]
                   ELSE [code |-> 200,
                         message |-> <<"Batch emails queued for ",
                                       Len(recipients), " recipients">>,
                         recipients_count |-> Len(recipients)]
             /\ lastOp' = [op |-> "send_batch_announcement",
                           recipients |-> recipients,
                           delay |-> IF d.raised THEN "raised" ELSE "accepted"]
             /\ UNCHANGED <<activities, user_preferences, mail_enabled>>
             /\ NoEffects
             /\ Interleaved

\* what the environment does to each send_email call of one batch
BatchOutcomes(n) == [1..n -> SendEmailOutcomes]

RunBatchEmails(i, envs) ==
    /\ i \in 1..Len(queue)
    /\ queue[i].task = "send_batch_emails_task"
    /\ envs \in BatchOutcomes(Len(queue[i].recipients))
    /\ mail_enabled \/ \A k \in DOMAIN envs : envs[k] = "ok"
    /\ queue' = Dequeue(queue, i)
    /\ Ran(queue[i], send_batch_emails_task(user_preferences, mail_enabled,
                        queue[i], envs))

NextBatch ==
    \/ \E recipients \in RecipientLists, up \in BOOLEAN :
          send_batch_announcement(recipients, up)
    \/ \E i \in 1..MaxQueue, n \in 0..MaxRecipients :
          \E envs \in BatchOutcomes(n) : RunBatchEmails(i, envs)

\* a record with frequency disabled
FrequencyOff(email) ==
    [EmailPreferences(email) EXCEPT !.frequency = "disabled"]

\* stores of at most one record
SmallStores ==
    {st \in BroadcastStores : WellKeyed(st) /\ Len(st) <= 1}
    \cup {<<[key |-> e, value |-> FrequencyOff(e)]>> : e \in Identities}

InitBatch ==
    /\ activities = InitialActivities
    /\ user_preferences \in SmallStores
    /\ queue = <<>>
    /\ mail_enabled \in BOOLEAN
    /\ lastOp = NoOp
    /\ response = NoResponse
    /\ calls = <<>>
    /\ renders = <<>>
    /\ transport = <<>>
    /\ reading = NoThread
    /\ scanning = NoThread

SpecBatch == InitBatch /\ [][NextBatch]_vars

(***************************************************************************)
(* New-activity announcements: the handler, the preference handlers that   *)
(* can change the store before the task runs, and the worker running the   *)
(* task.                                                                   *)
(***************************************************************************)
\* [email for email, prefs in all_prefs.items()
\*        if prefs.new_activities and prefs.enabled]
listEnabled(all_prefs) ==
    DictKeys(SelectSeq(all_prefs,
                       LAMBDA e : e.value.new_activities /\ e.value.enabled))

\* announce_new_activity from the point where the recipients are known
announce_resolved(activity_name, recipients, resolved, broker_up) ==
    IF resolved = <<>>
    THEN /\ broker_up
         /\ response' = [code |-> 200,
                         message |-> "No recipients to send to"]
         /\ lastOp' = [op |-> "announce_new_activity",
                       activity_name |-> activity_name,
                       recipients |-> recipients,
                       resolved |-> resolved, delay |-> "none"]
         /\ UNCHANGED <<activities, user_preferences, queue, mail_enabled>>
         /\ NoEffects
    ELSE LET d == delay(queue, AnnouncementTask(activity_name, resolved),
                        broker_up)
         IN  /\ broker_up => Len(queue) < MaxQueue
             /\ queue' = d.queue
             /\ response' =
                   IF d.raised
                   THEN [code |-> 200,
                         message |-> "Could not queue announcement emails (task queue unavailable)",
                         activity |-> activity_name,
                         recipients_count |-> Len(resolved),
                         warning |-> "Email service may not be available"]
                   ELSE [code |-> 200,
                         message |-> <<"Announcement emails queued for ",
                                       Len(resolved), " recipients">>,
                         activity |-> activity_name,
                         recipients_count |-> Len(resolved)]
             /\ lastOp' = [op |-> "announce_new_activity",
                           activity_name |-> activity_name,
                           recipients |-> recipients,
                           resolved |-> resolved,
                           delay |-> IF d.raised THEN "raised"
                                     ELSE "accepted"]
             /\ UNCHANGED <<activities, user_preferences, mail_enabled>>
             /\ NoEffects

\* POST /announcements/new-activity/{activity_name}; recipients is <<>> for
\* a request without a list and for one with an empty list
announce_new_activity(activity_name, recipients, broker_up) ==
    IF activity_name \notin DOMAIN activities
    THEN /\ broker_up
         /\ response' = [code |-> 404, detail |-> "Activity not found"]
         /\ lastOp' = [op |-> "announce_new_activity",
                       activity_name |-> activity_name,
                       recipients |-> recipients, resolved |-> <<>>,
                       delay |-> "none"]
         /\ UNCHANGED <<activities, user_preferences, queue, mail_enabled>>
         /\ NoEffects
         /\ Interleaved
    ELSE /\ announce_resolved(activity_name, recipients,
               IF recipients = <<>>
               THEN listEnabled(get_all_preferences(user_preferences))
               ELSE recipients,
               broker_up)
         /\ Interleaved

RunNewActivityAnnouncement(i, env) ==
    /\ i \in 1..Len(queue)
    /\ queue[i].task = "send_new_activity_announcement_task"
    /\ mail_enabled \/ env = "ok"
    /\ queue' = Dequeue(queue, i)
    /\ Ran(queue[i], send_new_activity_announcement_task(user_preferences,
                        mail_enabled, queue[i], env))

\* activity names of the announcement requests
AnnouncedActivities == {"GitHub Skills", UnknownActivity}

\* recipient lists of the announcement requests: none, or one address
AnnouncedRecipients == {<<>>} \cup {<<e>> : e \in Identities}

NextAnnounce ==
    \/ \E a \in AnnouncedActivities, recipients \in AnnouncedRecipients,
          up \in BOOLEAN :
          announce_new_activity(a, recipients, up)
    \/ \E e \in Identities : remove_email_preferences(e)
    \/ \E i \in 1..MaxQueue, env \in SendEmailOutcomes :
          RunNewActivityAnnouncement(i, env)

SpecAnnounce == InitFilter /\ [][NextAnnounce]_vars

(***************************************************************************)
(* The scans of the store, item by item: GET /email-preferences returns    *)
(* the dict get_all_preferences gave it, which is then iterated to build   *)
(* the response, and announce_new_activity iterates over its items().      *)
(* The other preference handlers run between two items.                    *)
(***************************************************************************)
ScanHandlers == {"list_all_preferences", "announce_new_activity"}

\* all_prefs = get_all_preferences(); iter(all_prefs.items())
BeginScan(handler) ==
    /\ scanning.pc # "iterating"
    /\ scanning' = [pc |-> "iterating", handler |-> handler,
                    slots |-> DictKeys(get_all_preferences(user_preferences)),
                    pos |-> 1,
                    size |-> Len(user_preferences),
                    left |-> Len(user_preferences),
                    seen |-> <<>>,
                    history |-> {user_preferences},
                    changes |-> 0]
    /\ lastOp' = [op |-> handler, at |-> "iter"]
    /\ response' = NoResponse
    /\ reading' = reading
    /\ UNCHANGED <<activities, user_preferences, queue, mail_enabled>>
    /\ NoEffects

\* the items seen are the content the store had at some moment
IsSnapshot(seen, history) ==
    \E st \in history : Len(st) = Len(seen) /\ Range(st) = Range(seen)

\* the iteration raised RuntimeError: the request ends with a 500
ScanRaised(detail) ==
    /\ scanning' = [pc |-> "done", handler |-> scanning.handler,
                    outcome |-> "RuntimeError", seen |-> scanning.seen,
                    snapshot |-> FALSE]
    /\ lastOp' = [op |-> scanning.handler, at |-> "raise"]
    /\ response' = [code |-> 500, detail |-> detail]
    /\ UNCHANGED <<activities, user_preferences, queue, mail_enabled>>
    /\ NoEffects

\* next(iterator): RuntimeError if the dict's size is not what it was, or
\* if an entry is left after the expected number of items; otherwise the
\* next entry that is not a hole, or the end of the iteration, where the
\* handler completes
ScanNext(broker_up) ==
    /\ scanning.pc = "iterating"
    /\ reading' = reading
    /\ LET live == {i \in scanning.pos..Len(scanning.slots) :
                       scanning.slots[i] # Hole}
           i == CHOOSE j \in live : \A k \in live : j <= k
       IN  IF Len(user_preferences) # scanning.size
           THEN /\ broker_up
                /\ ScanRaised("dictionary changed size during iteration")
           ELSE IF live # {} /\ scanning.left = 0
           THEN /\ broker_up
                /\ ScanRaised("dictionary keys changed during iteration")
           ELSE IF live # {}
           THEN /\ broker_up
                /\ scanning' =
                      [scanning EXCEPT
                         !.pos = i + 1,
                         !.left = @ - 1,
                         !.seen = Append(@,
                            [key |-> scanning.slots[i],
                             value |-> DictGet(user_preferences,
                                               scanning.slots[i])])]
                /\ lastOp' = [op |-> scanning.handler, at |-> "next"]
                /\ response' = NoResponse
                /\ UNCHANGED <<activities, user_preferences, queue,
                               mail_enabled>>
                /\ NoEffects
           ELSE /\ scanning' = [pc |-> "done", handler |-> scanning.handler,
                                outcome |-> "finished",
                                seen |-> scanning.seen,
                                snapshot |-> IsSnapshot(scanning.seen,
                                                        scanning.history)]
                /\ IF scanning.handler = "list_all_preferences"
                   THEN /\ broker_up
                        /\ lastOp' = [op |-> "list_all_preferences",
                                      at |-> "return"]
                        /\ response' = [code |-> 200,
                                        body |-> scanning.seen]
                        /\ UNCHANGED <<activities, user_preferences, queue,
                                       mail_enabled>>
                        /\ NoEffects
                   ELSE announce_resolved("GitHub Skills", <<>>,
                                          listEnabled(scanning.seen),
                                          broker_up)

\* request bodies of PUT /email-preferences while a scan runs
ScanBodies == {BroadcastOff(e) : e \in Identities}
              \cup {EmailPreferences(e) : e \in Identities}

InitScan ==
    /\ activities = InitialActivities
    /\ user_preferences = <<>>
    /\ queue = <<>>
    /\ mail_enabled = FALSE
    /\ lastOp = NoOp
    /\ response = NoResponse
    /\ calls = <<>>
    /\ renders = <<>>
    /\ transport = <<>>
    /\ reading = NoThread
    /\ scanning = NoThread

\* the store may change under a scan: at most MaxInterleaved times
MayInterleave ==
    scanning.pc = "iterating" => scanning.changes < MaxInterleaved

NextScan ==
    \/ \E h \in ScanHandlers : BeginScan(h)
    \/ \E up \in BOOLEAN : ScanNext(up)
    \/ \E e \in Identities :
          MayInterleave /\ get_email_preferences(e)
    \/ \E e \in Identities, body \in ScanBodies :
          MayInterleave /\ set_email_preferences(e, body)
    \/ \E e \in Identities :
          MayInterleave /\ remove_email_preferences(e)

SpecScan == InitScan /\ [][NextScan]_vars

(***************************************************************************)
(* get_user_preferences line by line, as GET /email-preferences/{email}    *)
(* runs it in a thread of the pool, with the other preference handlers     *)
(* running between two of its lines.                                       *)
(***************************************************************************)
\* if email not in user_preferences:
ReadCheck(email) ==
    /\ reading.pc \in {"idle", "done"}
    /\ reading' = [pc |-> IF DictHas(user_preferences, email)
                          THEN "return" ELSE "insert",
                   email |-> email, overwrote |-> FALSE]
    /\ lastOp' = [op |-> "get_email_preferences", email |-> email,
                  at |-> "check"]
    /\ response' = NoResponse
    /\ scanning' = scanning
    /\ UNCHANGED <<activities, user_preferences, queue, mail_enabled>>
    /\ NoEffects

\*     user_preferences[email] = EmailPreferences(email=email)
\* overwrote records whether the key had a record by now
ReadInsert ==
    /\ reading.pc = "insert"
    /\ user_preferences' = DictSet(user_preferences, reading.email,
                                   EmailPreferences(reading.email))
    /\ reading' = [reading EXCEPT
                      !.pc = "return",
                      !.overwrote = DictHas(user_preferences, reading.email)]
    /\ lastOp' = [op |-> "get_email_preferences", email |-> reading.email,
                  at |-> "insert"]
    /\ response' = NoResponse
    /\ scanning' = Disturbed(scanning, user_preferences, user_preferences')
    /\ UNCHANGED <<activities, queue, mail_enabled>>
    /\ NoEffects

\* return user_preferences[email]: KeyError if the key is gone
ReadReturn ==
    /\ reading.pc = "return"
    /\ reading' = [pc |-> "done", email |-> reading.email,
                   overwrote |-> reading.overwrote,
                   outcome |-> IF DictHas(user_preferences, reading.email)
                               THEN "returned" ELSE "KeyError"]
    /\ lastOp' = [op |-> "get_email_preferences", email |-> reading.email,
                  at |-> "return"]
    /\ response' = IF DictHas(user_preferences, reading.email)
                   THEN [ret |-> DictGet(user_preferences, reading.email)]
                   ELSE [code |-> 500, detail |-> "KeyError"]
    /\ scanning' = scanning
    /\ UNCHANGED <<activities, user_preferences, queue, mail_enabled>>
    /\ NoEffects

NextRead ==
    \/ \E e \in Identities : ReadCheck(e)
    \/ ReadInsert
    \/ ReadReturn
    \/ \E e \in Identities, body \in RosterBodies :
          set_email_preferences(e, body)
    \/ \E e \in Identities : remove_email_preferences(e)

SpecRead == InitScan /\ [][NextRead]_vars

(***************************************************************************)
(* The worker alone: each of its tasks arrives from the broker with any    *)
(* arguments and is run to its result on the store the worker has.         *)
(***************************************************************************)
ReceiveSignupConfirmation(email, env) ==
    /\ mail_enabled \/ env = "ok"
    /\ UNCHANGED queue
    /\ Ran(SignupTask("Chess Club", email),
           send_signup_confirmation_task(user_preferences, mail_enabled,
               SignupTask("Chess Club", email), env))

ReceiveUnregisterConfirmation(email, env) ==
    /\ mail_enabled \/ env = "ok"
    /\ UNCHANGED queue
    /\ Ran(UnregisterTask("Chess Club", email),
           send_unregister_confirmation_task(user_preferences, mail_enabled,
               UnregisterTask("Chess Club", email), env))

ReceiveBatchEmails(recipients, envs) ==
    /\ envs \in BatchOutcomes(Len(recipients))
    /\ mail_enabled \/ \A k \in DOMAIN envs : envs[k] = "ok"
    /\ UNCHANGED queue
    /\ Ran(BatchTask(recipients),
           send_batch_emails_task(user_preferences, mail_enabled,
               BatchTask(recipients), envs))

NextWorker ==
    \/ \E e \in Identities, env \in SendEmailOutcomes :
          ReceiveSignupConfirmation(e, env)
    \/ \E e \in Identities, env \in SendEmailOutcomes :
          ReceiveUnregisterConfirmation(e, env)
    \/ \E recipients \in RecipientLists, env \in SendEmailOutcomes :
          RunActivityChange(recipients, env)
    \/ \E recipients \in RecipientLists, env \in SendEmailOutcomes :
          ReceiveNewActivityAnnouncement(recipients, env)
    \/ \E recipients \in RecipientLists :
          \E envs \in BatchOutcomes(Len(recipients)) :
             ReceiveBatchEmails(recipients, envs)

SpecWorker == InitBatch /\ [][NextWorker]_vars

(***************************************************************************)
(* Properties of the roster handlers and the confirmation tasks, under     *)
(* Spec.                                                                   *)
(***************************************************************************)
\* The last step ran the signup confirmation task for an identity whose
\* stored record had signup_confirmation = false.
SignupTaskOfOptedOut ==
    /\ lastOp.op = "send_signup_confirmation_task"
    /\ DictHas(lastOp.before, lastOp.task.student_email)
    /\ ~DictGet(lastOp.before, lastOp.task.student_email).signup_confirmation

\* The last step was a signup request that passed validation, made by an
\* identity whose stored record has signup_confirmation = false.
SignupRequestOfOptedOut ==
    /\ lastOp.op = "signup_for_activity"
    /\ response.code = 200
    /\ DictHas(user_preferences, lastOp.email)
    /\ ~DictGet(user_preferences, lastOp.email).signup_confirmation

C2_SubmitFailureSwallowed ==
    /\ lastOp.op = "signup_for_activity" /\ lastOp.delay # "none" =>
          /\ response = [code |-> 200,
                         message |-> <<"Signed up ", lastOp.email, " for ",
                                       lastOp.activity_name>>]
          /\ LET p == activities[lastOp.activity_name].participants
             IN  p # <<>> /\ p[Len(p)] = lastOp.email
    /\ lastOp.op = "unregister_from_activity" /\ lastOp.delay # "none" =>
          /\ response = [code |-> 200,
                         message |-> <<"Unregistered ", lastOp.email,
                                       " from ", lastOp.activity_name>>]
          /\ lastOp.email \notin
                Range(activities[lastOp.activity_name].participants)

C2_Witness ==
    /\ lastOp.op = "unregister_from_activity"
    /\ lastOp.delay = "raised"
    /\ response.code = 200
    /\ lastOp.email \notin Range(activities["Chess Club"].participants)
    /\ queue = <<>>

(***************************************************************************)
(* Properties of the preference store and evaluator, under SpecEval.       *)
(***************************************************************************)
\* The record the last operation found stored for its address.
BeforeHas == DictHas(lastOp.before, lastOp.email)

BeforeRecord == DictGet(lastOp.before, lastOp.email)

AllDefaults(r) ==
    /\ r.enabled = TRUE
    /\ r.frequency = "immediate"
    /\ r.digest_only = FALSE
    /\ r.signup_confirmation = TRUE
    /\ r.unregister_confirmation = TRUE
    /\ r.activity_changes = TRUE
    /\ r.reminders = TRUE
    /\ r.weekly_digest = TRUE
    /\ r.new_activities = TRUE
    /\ r.attendance = TRUE

\* C3: the first read of an identity with no stored record returns the
\* all-defaults record (enabled, immediate, not digest-only, all seven
\* category flags true) and stores it under the identity; a read that
\* directly follows returns the same record.
C3_FirstReadDefaults ==
    /\ [](lastOp.op = "get_email_preferences" /\ ~BeforeHas =>
            /\ AllDefaults(response.ret)
            /\ response.ret.email = lastOp.email
            /\ DictHas(user_preferences, lastOp.email)
            /\ DictGet(user_preferences, lastOp.email) = response.ret)
    /\ [][lastOp.op = "get_email_preferences" /\ ~BeforeHas
          /\ lastOp'.op = "get_email_preferences"
          /\ lastOp'.email = lastOp.email
          => response' = response /\ user_preferences' = user_preferences]_vars

C3_Witness ==
    /\ lastOp.op = "get_email_preferences"
    /\ ~BeforeHas
    /\ Len(lastOp.before) = 1
    /\ ~AllDefaults(lastOp.before[1].value)
    /\ AllDefaults(response.ret)
    /\ Len(user_preferences) = 2

\* C4: should_send_email is false for every category when the stored
\* record has enabled = false, and when it has frequency = disabled,
\* whatever the other fields are.
C4_KillSwitch ==
    lastOp.op = "should_send_email" /\ BeforeHas
    /\ (~BeforeRecord.enabled \/ BeforeRecord.frequency = "disabled")
    => response.ret = FALSE

C4_Witness ==
    /\ lastOp.op = "should_send_email" /\ BeforeHas
    /\ BeforeRecord.enabled /\ BeforeRecord.frequency = "disabled"
    /\ ~BeforeRecord.digest_only
    /\ lastOp.category = "attendance" /\ BeforeRecord.attendance
    /\ response.ret = FALSE

\* C5 as stated: with digest_only = true, should_send_email is false for
\* every category but weekly_digest, and for weekly_digest it equals the
\* record's weekly_digest flag.
C5_Original ==
    lastOp.op = "should_send_email" /\ BeforeHas /\ BeforeRecord.digest_only
    => response.ret = IF lastOp.category = "weekly_digest"
                      THEN BeforeRecord.weekly_digest ELSE FALSE

\* C5 amended: with digest_only = true, should_send_email is false for
\* every category but weekly_digest; for weekly_digest it equals the
\* record's weekly_digest flag when enabled = true and frequency is not
\* disabled, and is false otherwise.
C5_DigestOnly ==
    lastOp.op = "should_send_email" /\ BeforeHas /\ BeforeRecord.digest_only
    => response.ret =
          IF lastOp.category # "weekly_digest" THEN FALSE
          ELSE IF BeforeRecord.enabled /\ BeforeRecord.frequency # "disabled"
               THEN BeforeRecord.weekly_digest
               ELSE FALSE

C5_Witness ==
    /\ lastOp.op = "should_send_email" /\ BeforeHas
    /\ BeforeRecord.digest_only
    /\ lastOp.category = "weekly_digest"
    /\ BeforeRecord.weekly_digest
    /\ ~BeforeRecord.enabled
    /\ response.ret = FALSE

\* C6: with enabled = true, frequency in {immediate, daily, weekly} and
\* digest_only = false, should_send_email equals the record's flag of the
\* category, for each of the seven categories.
C6_CategoryFlag ==
    lastOp.op = "should_send_email" /\ BeforeHas
    /\ BeforeRecord.enabled
    /\ BeforeRecord.frequency \in {"immediate", "daily", "weekly"}
    /\ ~BeforeRecord.digest_only
    => response.ret =
          CASE lastOp.category = "signup_confirmation" ->
                  BeforeRecord.signup_confirmation
            [] lastOp.category = "unregister_confirmation" ->
                  BeforeRecord.unregister_confirmation
            [] lastOp.category = "activity_changes" ->
                  BeforeRecord.activity_changes
            [] lastOp.category = "reminders" -> BeforeRecord.reminders
            [] lastOp.category = "weekly_digest" -> BeforeRecord.weekly_digest
            [] lastOp.category = "new_activities" ->
                  BeforeRecord.new_activities
            [] lastOp.category = "attendance" -> BeforeRecord.attendance

C6_Witness ==
    /\ lastOp.op = "should_send_email" /\ BeforeHas
    /\ BeforeRecord.enabled /\ ~BeforeRecord.digest_only
    /\ BeforeRecord.frequency = "daily"
    /\ lastOp.category = "reminders"
    /\ BeforeRecord.reminders /\ ~BeforeRecord.weekly_digest
    /\ response.ret = TRUE

\* C7: get_parent_email returns the record's parent identity exactly when
\* parent_cc_enabled is true and a parent identity is set; with the flag
\* false, no parent set, or no record stored yet, it returns None.
C7_ParentEmail ==
    lastOp.op = "get_parent_email" =>
        /\ BeforeHas /\ BeforeRecord.parent_cc_enabled
             /\ BeforeRecord.parent_email # None
           => response.ret = BeforeRecord.parent_email
        /\ ~(BeforeHas /\ BeforeRecord.parent_cc_enabled
             /\ BeforeRecord.parent_email # None)
           => response.ret = None

C7_Witness ==
    /\ lastOp.op = "get_parent_email" /\ BeforeHas
    /\ BeforeRecord.parent_email = "p@x.edu"
    /\ ~BeforeRecord.parent_cc_enabled
    /\ response.ret = None


(***************************************************************************)
(* Properties of the broadcast tasks, under SpecFilter.                    *)
(***************************************************************************)
BroadcastCategory(task) ==
    IF task = "send_activity_change_task" THEN "activity_changes"
    ELSE "new_activities"

\* s is t with some entries left out, the others in their order
IsSubsequence(s, t) ==
    \E f \in [1..Len(s) -> 1..Len(t)] :
        /\ \A i \in 1..Len(s) : t[f[i]] = s[i]
        /\ \A i, j \in 1..Len(s) : i < j => f[i] < f[j]

\* the entries of the task's recipient list that should_send_email admits,
\* taken on the store the task found
Admitted ==
    SelectSeq(lastOp.task.recipients,
              LAMBDA e : should_send_email(lastOp.before, e,
                            BroadcastCategory(lastOp.op)).ret)

\* the recipient list the task handed to the e-mail service; with no call
\* made, the filtered list was empty
FilteredRecipients == IF calls = <<>> THEN <<>> ELSE calls[1].recipients

BroadcastTaskRan ==
    lastOp.op \in {"send_activity_change_task",
                   "send_new_activity_announcement_task"}

\* C8: in both broadcast tasks the filtered recipient list is a
\* subsequence of the input, holds exactly the input entries for which
\* should_send_email is true (each as often as the input has it), and is
\* empty for an empty input.
C8_FilterSubsequence ==
    BroadcastTaskRan =>
        /\ IsSubsequence(FilteredRecipients, lastOp.task.recipients)
        /\ FilteredRecipients = Admitted
        /\ \A e \in Range(FilteredRecipients) :
              should_send_email(lastOp.before, e,
                                BroadcastCategory(lastOp.op)).ret
        /\ lastOp.task.recipients = <<>> => FilteredRecipients = <<>>

C8_Witness ==
    /\ lastOp.op = "send_new_activity_announcement_task"
    /\ lastOp.task.recipients = <<"b@x.edu", "a@x.edu">>
    /\ FilteredRecipients = <<"b@x.edu", "a@x.edu">>
    /\ lastOp.before = <<>>

\* C9: send_activity_change_task filters with category activity_changes;
\* with nothing left it returns skipped and hands nothing to the e-mail
\* service or the transport; otherwise it makes exactly one send_email
\* call, addressed to exactly the filtered list.
C9_ActivityChangeDispatch ==
    lastOp.op = "send_activity_change_task" =>
        IF Admitted = <<>>
        THEN /\ response.ret =
                   [status |-> "skipped",
                    reason |-> "no recipients with enabled preferences"]
             /\ calls = <<>> /\ renders = <<>> /\ transport = <<>>
        ELSE /\ Len(calls) = 1
             /\ calls[1].recipients = Admitted
             /\ calls[1].template_name = "activity_change"
             /\ calls[1].cc = NoCc
             /\ Len(transport) <= 1
             /\ \A i \in 1..Len(transport) :
                   transport[i].recipients = Admitted
             /\ response.ret.status \in {"sent", "failed"}
             /\ response.ret.recipients = Len(Admitted)

C9_Witness ==
    /\ lastOp.op = "send_activity_change_task"
    /\ lastOp.task.recipients = <<"a@x.edu", "b@x.edu">>
    /\ DictHas(lastOp.before, "b@x.edu")
    /\ ~DictGet(lastOp.before, "b@x.edu").activity_changes
    /\ Len(calls) = 1
    /\ calls[1].recipients = <<"a@x.edu">>
    /\ Len(transport) = 1
    /\ response.ret = [status |-> "sent", recipients |-> 1]

(***************************************************************************)
(* Properties of batch announcements, under SpecBatch.                     *)
(***************************************************************************)
\* C10: a batch request with an empty recipient list is rejected (400)
\* before any delay call: no batch task with an empty list is ever queued
\* and the rejected request hands nothing to the e-mail service.
C10_EmptyBatchRejected ==
    /\ lastOp.op = "send_batch_announcement" /\ lastOp.recipients = <<>> =>
          /\ response = [code |-> 400, detail |-> "No recipients specified"]
          /\ lastOp.delay = "none"
          /\ calls = <<>> /\ renders = <<>> /\ transport = <<>>
    /\ \A i \in 1..Len(queue) :
          queue[i].task = "send_batch_emails_task" =>
             queue[i].recipients # <<>>
    /\ lastOp.op = "send_batch_emails_task" => lastOp.task.recipients # <<>>

C10_Witness ==
    /\ lastOp.op = "send_batch_announcement"
    /\ lastOp.recipients = <<>>
    /\ response.code = 400
    /\ queue = <<>>


\* the send_email calls of the last task whose result was True: the
\* renderer and the transport were reached and send_message returned
SuccessfulSends ==
    Cardinality({i \in 1..Len(transport) : ~transport[i].raised})

BatchTaskRan == lastOp.op = "send_batch_emails_task"

\* C11: the batch task makes exactly one single-recipient send_email call
\* per recipient, in order, whatever the earlier calls did, and returns
\* total = n, sent = the number of successful calls, failed = total - sent.
C11_BatchPerRecipient ==
    BatchTaskRan =>
        LET rs == lastOp.task.recipients
        IN  /\ Len(calls) = Len(rs)
            /\ \A i \in 1..Len(rs) : calls[i].recipients = <<rs[i]>>
            /\ response.ret.status = "completed"
            /\ response.ret.total = Len(rs)
            /\ response.ret.sent = SuccessfulSends
            /\ response.ret.failed = response.ret.total - response.ret.sent

C11_Witness ==
    /\ BatchTaskRan
    /\ lastOp.task.recipients = <<"a@x.edu", "b@x.edu">>
    /\ Len(transport) = 2
    /\ transport[1].raised /\ ~transport[2].raised
    /\ transport[2].recipients = <<"b@x.edu">>
    /\ response.ret = [status |-> "completed", total |-> 2,
                       sent |-> 1, failed |-> 1]

\* C12: the batch task does not consult preferences: it calls send_email
\* for every recipient, those with enabled=false, frequency=disabled or
\* digest_only=true included, and leaves the preference store as it found
\* it (no record read into being).
C12_BatchNotGated ==
    BatchTaskRan =>
        /\ user_preferences = lastOp.before
        /\ \A i \in 1..Len(lastOp.task.recipients) :
              /\ i \in 1..Len(calls)
              /\ calls[i].recipients = <<lastOp.task.recipients[i]>>
        /\ mail_enabled =>
              Len(renders) = Len(lastOp.task.recipients)

C12_Witness ==
    /\ BatchTaskRan
    /\ lastOp.task.recipients = <<"a@x.edu", "b@x.edu">>
    /\ DictHas(lastOp.before, "a@x.edu")
    /\ ~DictGet(lastOp.before, "a@x.edu").enabled
    /\ ~DictHas(user_preferences, "b@x.edu")
    /\ Len(transport) = 2
    /\ transport[1].recipients = <<"a@x.edu">> /\ ~transport[1].raised


(***************************************************************************)
(* Properties of the worker's tasks, under SpecWorker.                     *)
(***************************************************************************)
WorkerTaskRan ==
    lastOp.op \in {"send_signup_confirmation_task",
                   "send_unregister_confirmation_task",
                   "send_activity_change_task",
                   "send_new_activity_announcement_task",
                   "send_batch_emails_task"}

\* C13: with the e-mail service unconfigured (no credentials, enabled is
\* False) every send_email call a task makes fails: the task returns
\* failed (the batch task: sent = 0 and failed = total) and neither the
\* renderer nor the transport is reached; a task that makes no call is the
\* skipped one.
C13_UnconfiguredFails ==
    (WorkerTaskRan /\ ~mail_enabled) =>
        /\ renders = <<>>
        /\ transport = <<>>
        /\ IF BatchTaskRan
           THEN /\ Len(calls) = Len(lastOp.task.recipients)
                /\ response.ret.sent = 0
                /\ response.ret.failed = Len(lastOp.task.recipients)
           ELSE /\ Len(calls) <= 1
                /\ calls # <<>> => response.ret.status = "failed"
                /\ calls = <<>> => response.ret.status = "skipped"

C13_Witness ==
    /\ ~mail_enabled
    /\ lastOp.op = "send_signup_confirmation_task"
    /\ Len(calls) = 1
    /\ calls[1].recipients = <<"a@x.edu">>
    /\ response.ret = [status |-> "failed"]
    /\ renders = <<>> /\ transport = <<>>


(***************************************************************************)
(* Properties of delivery failures, under Spec.                            *)
(***************************************************************************)
ConfirmationTaskRan ==
    lastOp.op \in {"send_signup_confirmation_task",
                   "send_unregister_confirmation_task"}

\* the template was rendered (or the message built) and it raised
RenderRaised == mail_enabled /\ Len(renders) = 1 /\ transport = <<>>

\* send_message was called and it raised
TransportRaised == Len(transport) = 1 /\ transport[1].raised

SameExcept(d, e, k) ==
    \A x \in Identities \ {k} :
        /\ DictHas(d, x) = DictHas(e, x)
        /\ DictHas(d, x) => DictGet(d, x) = DictGet(e, x)

\* C15: a put whose path address differs from the address in the body is
\* rejected (400) and leaves the store as it was; a put whose addresses
\* match stores exactly the body under that address, whatever was stored
\* before, and changes no other address's record.
C15_PutWholesale ==
    lastOp.op = "set_email_preferences" =>
        IF lastOp.email # lastOp.preferences.email
        THEN /\ response =
                   [code |-> 400,
                    detail |->
                      "Email in path must match email in preferences"]
             /\ user_preferences = lastOp.before
        ELSE /\ response.code = 200
             /\ response.preferences = lastOp.preferences
             /\ DictHas(user_preferences, lastOp.email)
             /\ DictGet(user_preferences, lastOp.email) = lastOp.preferences
             /\ SameExcept(user_preferences, lastOp.before, lastOp.email)

C15_Witness ==
    /\ lastOp.op = "set_email_preferences"
    /\ lastOp.email = "a@x.edu"
    /\ lastOp.preferences = ParentCc("a@x.edu")
    /\ DictHas(lastOp.before, "a@x.edu")
    /\ DictGet(lastOp.before, "a@x.edu") = OptedOut("a@x.edu")
    /\ DictHas(lastOp.before, "b@x.edu")
    /\ DictGet(user_preferences, "a@x.edu").signup_confirmation
    /\ DictGet(user_preferences, "a@x.edu") = ParentCc("a@x.edu")

\* C16: a delete answers true (200) and removes the record iff the address
\* had one, and answers false (404) leaving the store as it was otherwise;
\* a read that comes right after a successful delete of the same address
\* returns and stores the all-defaults record.
C16_DeleteThenDefaults ==
    /\ [](lastOp.op = "remove_email_preferences" =>
             IF DictHas(lastOp.before, lastOp.email)
             THEN /\ response.code = 200
                  /\ ~DictHas(user_preferences, lastOp.email)
                  /\ user_preferences = DictDel(lastOp.before, lastOp.email)
                  /\ SameExcept(user_preferences, lastOp.before, lastOp.email)
             ELSE /\ response.code = 404
                  /\ user_preferences = lastOp.before)
    /\ [][(/\ lastOp.op = "remove_email_preferences"
           /\ response.code = 200
           /\ lastOp'.op = "get_email_preferences"
           /\ lastOp'.email = lastOp.email) =>
             /\ response'.ret = EmailPreferences(lastOp.email)
             /\ DictHas(user_preferences', lastOp.email)
             /\ DictGet(user_preferences', lastOp.email) =
                   EmailPreferences(lastOp.email)]_vars

C16_Witness ==
    /\ lastOp.op = "remove_email_preferences"
    /\ lastOp.email = "a@x.edu"
    /\ DictHas(lastOp.before, "a@x.edu")
    /\ DictGet(lastOp.before, "a@x.edu") = OptedOut("a@x.edu")
    /\ response.code = 200
    /\ ~DictHas(user_preferences, "a@x.edu")
    /\ DictHas(user_preferences, "b@x.edu")


(***************************************************************************)
(* Properties of new-activity announcements, under SpecAnnounce.           *)
(***************************************************************************)
\* the stored addresses whose record has new_activities and enabled set,
\* in the order of the store
StoredSubscribers ==
    SelectSeq(DictKeys(user_preferences),
              LAMBDA e : /\ DictGet(user_preferences, e).new_activities
                         /\ DictGet(user_preferences, e).enabled)

\* C17: an announcement request without a recipient list resolves the
\* recipients to the stored addresses with new_activities and enabled
\* both true; the task filters its list again with should_send_email for
\* new_activities, so that every address the message goes to satisfies
\* it, and with nothing left returns skipped without a send_email call.
C17_AnnouncementRefiltered ==
    /\ (/\ lastOp.op = "announce_new_activity"
        /\ lastOp.activity_name \in DOMAIN activities
        /\ lastOp.recipients = <<>>) =>
           /\ lastOp.resolved = StoredSubscribers
           /\ lastOp.delay = "accepted" =>
                 queue[Len(queue)].recipients = StoredSubscribers
           /\ StoredSubscribers = <<>> =>
                 lastOp.delay = "none" /\ calls = <<>>
    /\ lastOp.op = "send_new_activity_announcement_task" =>
           /\ \A e \in Range(FilteredRecipients) :
                 should_send_email(lastOp.before, e, "new_activities").ret
           /\ \A i \in 1..Len(transport) :
                 transport[i].recipients = Admitted
           /\ IF Admitted = <<>>
              THEN /\ response.ret.status = "skipped"
                   /\ calls = <<>> /\ renders = <<>> /\ transport = <<>>
              ELSE Len(calls) = 1 /\ calls[1].recipients = Admitted

C17_Witness ==
    /\ lastOp.op = "send_new_activity_announcement_task"
    /\ lastOp.task.recipients = <<"a@x.edu", "b@x.edu">>
    /\ DictKeys(lastOp.before) = <<"a@x.edu", "b@x.edu">>
    /\ DictGet(lastOp.before, "a@x.edu") = DigestOnly("a@x.edu")
    /\ Len(transport) = 1
    /\ transport[1].recipients = <<"b@x.edu">>
    /\ response.ret = [status |-> "sent", recipients |-> 1]


(***************************************************************************)
(* Properties of the scans of the store, under SpecScan.                   *)
(***************************************************************************)
\* a scan ended in RuntimeError because the dict changed under it
ScanDisturbed == scanning.pc = "done" /\ scanning.outcome = "RuntimeError"

\* a scan ran to its end and saw items the store never held together
ScanTorn ==
    /\ scanning.pc = "done"
    /\ scanning.outcome = "finished"
    /\ ~scanning.snapshot

\* C18: a scan of the store (GET /email-preferences, or the recipients of
\* an announcement) that runs while other requests read, put or delete
\* records ends normally, and the items it saw are the content the store
\* had at one moment between its start and its end.
C18_SnapshotScan == ~ScanDisturbed /\ ~ScanTorn

(***************************************************************************)
(* Properties of the lazy read, under SpecRead.                            *)
(***************************************************************************)
\* the read stored its default record over a record put after its check
ReadOverwrote == reading.pc \in {"return", "done"} /\ reading.overwrote

\* the read raised KeyError: the record was deleted before its return
ReadFailed == reading.pc = "done" /\ reading.outcome = "KeyError"

\* C19: a read of an address that runs while other requests put or delete
\* that address's record acts as one step: it never stores its default
\* record over a record put meanwhile, and it never fails for a record
\* deleted between its insert and its return.
C19_AtomicRead == ~ReadOverwrote /\ ~ReadFailed


(***************************************************************************)
(* Properties of the queue, under SpecLive.                                *)
(***************************************************************************)
Waiting(task, email) ==
    \E i \in 1..Len(queue) :
        queue[i].task = task /\ queue[i].student_email = email

Processed(task, email) ==
    /\ lastOp.op = task
    /\ lastOp.task.student_email = email
    /\ response.ret.status \in {"sent", "failed", "skipped"}

\* C20: a confirmation task the broker accepted is eventually run by the
\* worker and ends with one outcome of sent, failed, skipped, each task
\* being taken off the queue once; the roster request that queued it has
\* returned its success message while the task still waits, no e-mail
\* call made.
C20_EventuallyAttempted ==
    /\ \A task \in ConfirmationTasks, email \in Identities :
          Waiting(task, email) ~> Processed(task, email)
    /\ [](lastOp.op \in {"signup_for_activity", "unregister_from_activity"}
             /\ lastOp.delay = "accepted" =>
                /\ response.code = 200
                /\ queue # <<>>
                /\ queue[Len(queue)].student_email = lastOp.email
                /\ queue[Len(queue)].task =
                      IF lastOp.op = "signup_for_activity"
                      THEN "send_signup_confirmation_task"
                      ELSE "send_unregister_confirmation_task"
                /\ calls = <<>> /\ transport = <<>>)
    /\ [][Len(queue') < Len(queue) =>
             /\ Len(queue') = Len(queue) - 1
             /\ lastOp'.op \in ConfirmationTasks
             /\ lastOp'.task \in Range(queue)
             /\ response'.ret.status \in {"sent", "failed", "skipped"}]_vars

C20_Witness ==
    /\ lastOp.op = "send_unregister_confirmation_task"
    /\ lastOp.task.student_email = "b@x.edu"
    /\ response.ret = [status |-> "sent"]
    /\ queue = <<>>
    /\ Len(transport) = 1


(***************************************************************************)
(* Properties of the participant lists, under Spec.                        *)
(***************************************************************************)
NoDuplicates(seq) ==
    \A i, j \in 1..Len(seq) : seq[i] = seq[j] => i = j

\* the step is a roster request, signup or unregister
RosterStep(op) == lastOp'.op = op

\* C21: no identity appears twice in any activity's participant list, and
\* a signup for an identity already in the list is answered 400 "Student
\* is already signed up" and leaves the list as it was.
C21_NoDuplicateParticipants ==
    /\ [](\A n \in DOMAIN activities : NoDuplicates(activities[n].participants))
    /\ [][RosterStep("signup_for_activity")
             /\ lastOp'.activity_name \in DOMAIN activities
             /\ lastOp'.email \in
                   Range(activities[lastOp'.activity_name].participants) =>
                /\ response' = [code |-> 400,
                                detail |-> "Student is already signed up"]
                /\ activities' = activities]_vars

C21_Witness ==
    /\ lastOp.op = "signup_for_activity"
    /\ lastOp.email = "a@x.edu"
    /\ response.code = 400
    /\ activities["Chess Club"].participants
          = <<"michael@mergington.edu", "daniel@mergington.edu", "b@x.edu",
              "a@x.edu">>

\* the four requests the roster handlers refuse
RefusedSignup ==
    /\ RosterStep("signup_for_activity")
    /\ \/ lastOp'.activity_name \notin DOMAIN activities
       \/ lastOp'.email \in
             Range(activities[lastOp'.activity_name].participants)

RefusedUnregister ==
    /\ RosterStep("unregister_from_activity")
    /\ \/ lastOp'.activity_name \notin DOMAIN activities
       \/ lastOp'.email \notin
             Range(activities[lastOp'.activity_name].participants)

\* C22: a signup or unregister request for an unknown activity (404), a
\* signup of an identity already in the list (400) and an unregister of an
\* identity not in the list (400) leave every participant list and the
\* queue as they were, and no other roster request is answered 4xx.
C22_RejectedLeavesNoTrace ==
    /\ [][RefusedSignup \/ RefusedUnregister =>
             /\ response'.code =
                   IF lastOp'.activity_name \in DOMAIN activities
                   THEN 400 ELSE 404
             /\ lastOp'.delay = "none"
             /\ activities' = activities
             /\ queue' = queue
             /\ calls' = <<>> /\ transport' = <<>>]_vars
    /\ [][(RosterStep("signup_for_activity")
              \/ RosterStep("unregister_from_activity"))
             /\ response'.code # 200 =>
                /\ RefusedSignup \/ RefusedUnregister
                /\ activities' = activities
                /\ queue' = queue]_vars

C22_Witness ==
    /\ lastOp.op = "unregister_from_activity"
    /\ lastOp.activity_name = "Chess Club"
    /\ response = [code |-> 400,
                   detail |-> "Student is not signed up for this activity"]
    /\ Len(queue) = 1
    /\ Len(activities["Chess Club"].participants) = 3

(***************************************************************************)
(* Preferences changed while a confirmation waits: a roster request is     *)
(* made while every stored record is the default one, a put arrives while  *)
(* a task waits in the queue, and the worker runs the task afterwards.     *)
(***************************************************************************)
\* every stored record is the one a first read creates
Pristine(store) ==
    \A i \in 1..Len(store) : store[i].value = EmailPreferences(store[i].key)

NextChange ==
    \/ \E e \in Identities, up \in BOOLEAN :
          Pristine(user_preferences)
             /\ signup_for_activity("Chess Club", e, up)
    \/ \E e \in Identities, up \in BOOLEAN :
          Pristine(user_preferences)
             /\ unregister_from_activity("Chess Club", e, up)
    \/ \E e \in Identities, body \in RosterBodies :
          queue # <<>> /\ set_email_preferences(e, body)
    \/ \E i \in 1..MaxQueue, env \in SendEmailOutcomes :
          RunSignupConfirmation(i, env)
    \/ \E i \in 1..MaxQueue, env \in SendEmailOutcomes :
          RunUnregisterConfirmation(i, env)

SpecChange == Init /\ [][NextChange]_vars

\* what the record stored when the task runs says about the student
CategoryOf(task) ==
    IF task.task = "send_signup_confirmation_task"
    THEN "signup_confirmation" ELSE "unregister_confirmation"

RecordAtRun ==
    IF DictHas(lastOp.before, lastOp.task.student_email)
    THEN DictGet(lastOp.before, lastOp.task.student_email)
    ELSE EmailPreferences(lastOp.task.student_email)

WantedAtRun ==
    /\ RecordAtRun.enabled
    /\ RecordAtRun.frequency # "disabled"
    /\ ~RecordAtRun.digest_only
    /\ IF CategoryOf(lastOp.task) = "signup_confirmation"
       THEN RecordAtRun.signup_confirmation
       ELSE RecordAtRun.unregister_confirmation

CcAtRun ==
    IF RecordAtRun.parent_cc_enabled /\ Truthy(RecordAtRun.parent_email)
    THEN <<RecordAtRun.parent_email>> ELSE NoCc

EnrolledSince ==
    <<"s01@mergington.edu", "s02@mergington.edu", "s03@mergington.edu",
      "s04@mergington.edu", "s05@mergington.edu", "s06@mergington.edu",
      "s07@mergington.edu", "s08@mergington.edu", "s09@mergington.edu",
      "s10@mergington.edu">>

FullActivities ==
    [InitialActivities EXCEPT
        !["Chess Club"].participants = @ \o EnrolledSince]

InitRoster ==
    /\ activities \in {InitialActivities, FullActivities}
    /\ user_preferences = <<>>
    /\ queue = <<>>
    /\ mail_enabled \in BOOLEAN
    /\ lastOp = NoOp
    /\ response = NoResponse
    /\ calls = <<>>
    /\ renders = <<>>
    /\ transport = <<>>
    /\ reading = NoThread
    /\ scanning = NoThread

SpecRoster == InitRoster /\ [][NextLive]_vars

\* C24: a signup for an activity in the database by an identity not in its
\* participant list is answered 200 and appends the identity at the end of
\* the list, however many participants the list has; a signup is refused
\* only for an unknown activity or an identity already in the list.
C24_SignupNotCapped ==
    /\ [][RosterStep("signup_for_activity")
             /\ lastOp'.activity_name \in DOMAIN activities
             /\ lastOp'.email \notin
                   Range(activities[lastOp'.activity_name].participants) =>
                /\ response' = [code |-> 200,
                                message |-> <<"Signed up ", lastOp'.email,
                                              " for ", lastOp'.activity_name>>]
                /\ activities' = [activities EXCEPT
                      ![lastOp'.activity_name].participants =
                          Append(@, lastOp'.email)]]_vars
    /\ [](lastOp.op = "signup_for_activity" /\ response.code # 200 =>
             response.detail \in {"Activity not found",
                                  "Student is already signed up"})

C24_Witness ==
    /\ lastOp.op = "signup_for_activity"
    /\ response.code = 200
    /\ Len(activities[lastOp.activity_name].participants)
          > activities[lastOp.activity_name].max_participants
    /\ LET p == activities[lastOp.activity_name].participants
       IN  p[Len(p)] = lastOp.email

=============================================================================
